---- MODULE Spec2Model ----
(***************************************************************************)
(* NavigateEnv (gibson2/envs/locomotor_env.py): the reset/step protocol of *)
(* the navigation environment.                                             *)
(*                                                                         *)
(* Lengths are integers in grid units of 0.5 m (1.0 m = 2 units).  All     *)
(* modelled positions lie on the x axis, so every Euclidean distance is an *)
(* integer and l2_distance is exact.  Rewards and potentials are extended  *)
(* rationals <<n, d>> in lowest terms with d >= 0; d = 0 encodes the IEEE  *)
(* values the float division produces: <<1,0>> = +inf, <<-1,0>> = -inf,    *)
(* <<0,0>> = NaN.                                                          *)
(***************************************************************************)
EXTENDS Integers, Sequences, FiniteSets, TLC

VARIABLES
    config,             \* self.config and the constructor arguments (immutable)
    init_error,         \* exception raised by __init__ ("none": constructed)
    simulator_loop,     \* self.simulator_loop
    observation_space,  \* keys of self.observation_space
    potential,          \* self.potential
    current_step,       \* self.current_step
    initial_pos,        \* self.initial_pos (None until the first reset)
    target_pos,         \* self.target_pos  (None until the first reset)
    robot_pos,          \* self.robots[0].get_position()
    pc,                 \* position of the caller inside reset
    draws,              \* goal draws made by the reset in progress or just ended
    contact_points,     \* what p.getContactPoints returned in the last call, per query
    ret,                \* outcome of the last call of reset or step
    episode             \* call history: steps returned since the last reset that returned

vars == <<config, init_error, simulator_loop, observation_space, potential,
          current_step, initial_pos, target_pos, robot_pos, pc, draws,
          contact_points, ret, episode>>

----------------------------------------------------------------------------
(* Bounds of the model *)

\* robot positions are <<x, 0, 0>> with x in 0..MaxCoord
MaxCoord == 4
\* step is not called once current_step has reached MaxCalls
MaxCalls == 3

----------------------------------------------------------------------------
(* Program constants *)

\* range(100) of the goal loop
RetryBudget == 100
\* the 1.0 m minimum separation, in grid units
MinSeparation == 2
\* progress scale
ProgressScale == 1000

None == <<>>

----------------------------------------------------------------------------
(* Float arithmetic on extended rationals *)

Abs(x) == IF x < 0 THEN -x ELSE x

Sign(x) == IF x < 0 THEN -1 ELSE IF x > 0 THEN 1 ELSE 0

RECURSIVE GCD(_, _)
GCD(a, b) == IF b = 0 THEN a ELSE GCD(b, a % b)

Rat(n, d) ==
    IF d = 0 THEN <<Sign(n), 0>>
    ELSE LET g == GCD(Abs(n), Abs(d))
             s == IF d < 0 THEN -1 ELSE 1
         IN  <<(s * n) \div g, (s * d) \div g>>

NaN == <<0, 0>>
IsNaN(x) == x = NaN
IsInf(x) == x[2] = 0 /\ x[1] # 0
IsFinite(x) == x[2] > 0

FNeg(x) == <<-x[1], x[2]>>

FSub(x, y) ==
    IF IsNaN(x) \/ IsNaN(y) THEN NaN
    ELSE IF IsInf(x) /\ IsInf(y) THEN (IF x = y THEN NaN ELSE x)
    ELSE IF IsInf(x) THEN x
    ELSE IF IsInf(y) THEN FNeg(y)
    ELSE Rat(x[1] * y[2] - y[1] * x[2], x[2] * y[2])

FAdd(x, y) == FSub(x, FNeg(y))

\* x * k for an integer k > 0
FMulInt(x, k) == IF IsFinite(x) THEN Rat(x[1] * k, x[2]) ELSE x

\* a / b for two norms (numpy floats): division by zero gives inf or nan
FDiv(a, b) == Rat(a, b)

One == <<1, 1>>
Zero == <<0, 1>>

----------------------------------------------------------------------------
(* Positions and distances *)

P(x) == <<x, 0, 0>>

ISqrt(n) == CHOOSE r \in 0..n : r * r <= n /\ (r + 1) * (r + 1) > n

l2_distance(v1, v2) ==
    ISqrt((v1[1] - v2[1]) * (v1[1] - v2[1])
          + (v1[2] - v2[2]) * (v1[2] - v2[2])
          + (v1[3] - v2[3]) * (v1[3] - v2[3]))

VecSub(v1, v2) == <<v1[1] - v2[1], v1[2] - v2[2], v1[3] - v2[3]>>

RobotPositions == {P(x) : x \in 0..MaxCoord}

\* pose after robot_specific_reset
CanonicalPos == P(0)

\* the end effector is held one unit ahead of the root
get_end_effector_position(pos) == <<pos[1] + 1, pos[2], pos[3]>>

----------------------------------------------------------------------------
(* Configurations the environment is constructed with *)

\* max_step default float('inf')
Infinity == -1

Scenario ==
    [valid_pos |-> None,
     initial_pos_low |-> P(0), initial_pos_high |-> P(0),
     target_pos_low |-> P(4), target_pos_high |-> P(4),
     dist_tol |-> 1, max_step |-> 3, terminal_reward |-> <<7, 1>>,
     output |-> <<"sensor", "rgb", "depth">>, task |-> "pointgoal",
     action_timestep |-> 2, physics_timestep |-> 1]

Configs ==
    { Scenario,
      \* candidate list with close, far and coincident pairs; output not in code order
      [Scenario EXCEPT !.valid_pos = <<P(0), P(1), P(3)>>, !.dist_tol = 2,
                       !.max_step = 2, !.output = <<"rgb", "sensor", "bump">>],
      \* candidate list whose positions are all closer than 1 m
      [Scenario EXCEPT !.valid_pos = <<P(2), P(3)>>,
                       !.output = <<"sensor", "bump">>],
      \* overlapping boxes, reaching task, non-integral timestep ratio
      [Scenario EXCEPT !.initial_pos_low = P(1), !.initial_pos_high = P(3),
                       !.target_pos_low = P(2), !.target_pos_high = P(5),
                       !.task = "reaching", !.max_step = 2,
                       !.output = <<"sensor", "seg", "normal">>,
                       !.action_timestep = 3, !.physics_timestep = 2],
      \* a channel name the code does not know
      [Scenario EXCEPT !.output = <<"sensor", "lidar", "bump">>],
      \* rgb_filled without rgb
      [Scenario EXCEPT !.output = <<"rgb_filled", "sensor">>],
      \* a task that is neither pointgoal nor reaching, a channel listed twice
      [Scenario EXCEPT !.task = "objectgoal", !.output = <<"sensor", "sensor">>],
      \* the defaults of dist_tol, max_step and terminal_reward
      [Scenario EXCEPT !.max_step = Infinity, !.terminal_reward = Zero,
                       !.output = <<"depth", "rgb", "rgb_filled">>] }

\* contact reports of one p.getContactPoints call: the link index (item[3]) of each record
ContactReports == { <<>>, <<-1>>, <<0, 0>> }

----------------------------------------------------------------------------
(* __init__ *)

InSeq(c, s) == \E i \in 1..Len(s) : s[i] = c

SimulatorLoop(cfg) == cfg.action_timestep \div cfg.physics_timestep

ObservationSpace(output) ==
    LET s1 == IF InSeq("sensor", output) THEN <<"sensor">> ELSE <<>>
        s2 == IF InSeq("rgb", output) THEN Append(s1, "rgb") ELSE s1
        s3 == IF InSeq("depth", output) THEN Append(s2, "depth") ELSE s2
    IN  s3

\* __init__ has no raise statement: every configuration is accepted
InitError(cfg) == "none"

----------------------------------------------------------------------------
(* Observation assembly, the same code in step and in reset *)

\* AssembleState that walks self.output instead of testing each channel in turn
AssembleState_ConfiguredOrder(output) == [error |-> "none", keys |-> output]

AssembleState(output) ==
    LET s1 == IF InSeq("sensor", output) THEN <<"sensor">> ELSE <<>>
        s2 == IF InSeq("rgb", output) THEN Append(s1, "rgb") ELSE s1
        s3 == IF InSeq("depth", output) THEN Append(s2, "depth") ELSE s2
        s4 == IF InSeq("normal", output) THEN Append(s3, "normal") ELSE s3
        s5 == IF InSeq("seg", output) THEN Append(s4, "seg") ELSE s4
        \* state['rgb'] is read to fill: KeyError when rgb was not assembled
        filled == InSeq("rgb_filled", output)
        s6 == IF filled THEN Append(s5, "rgb_filled") ELSE s5
        s7 == IF InSeq("bump", output) THEN Append(s6, "bump") ELSE s6
    IN  IF filled /\ ~InSeq("rgb", s5)
        THEN [error |-> "KeyError", keys |-> <<>>]
        ELSE [error |-> "none", keys |-> s7]

\* get_additional_states; the robot's roll/pitch/yaw are kept at zero, where
\* rotate_vector_3d is the identity
get_additional_states(target, pos) == VecSub(target, pos)

RECURSIVE SortedSeq(_)
SortedSeq(S) ==
    IF S = {} THEN <<>>
    ELSE LET m == CHOOSE x \in S : \A y \in S : x <= y
         IN  <<m>> \o SortedSeq(S \ {m})

\* np.unique: the sorted distinct elements
Unique(list) == SortedSeq({list[i] : i \in 1..Len(list)})

\* -1 in collision_links
Bump(collision_links) == InSeq(-1, collision_links)

----------------------------------------------------------------------------
(* Pose sampling *)

Range(lo, hi) == IF lo = hi THEN {lo} ELSE lo..(hi - 1)

\* np.random.uniform(low, high) on the grid
Uniform(low, high) ==
    {<<x, y, z>> : x \in Range(low[1], high[1]), y \in Range(low[2], high[2]),
                   z \in Range(low[3], high[3])}

DrawInitial(cfg) ==
    IF cfg.valid_pos = None THEN Uniform(cfg.initial_pos_low, cfg.initial_pos_high)
    ELSE {cfg.valid_pos[i] : i \in 1..Len(cfg.valid_pos)}

DrawTarget(cfg) ==
    IF cfg.valid_pos = None THEN Uniform(cfg.target_pos_low, cfg.target_pos_high)
    ELSE {cfg.valid_pos[i] : i \in 1..Len(cfg.valid_pos)}

\* LoopContinues with one iteration too many
LoopContinues_OneMore(i) == i <= RetryBudget

\* the loop of reset runs another iteration
LoopContinues(i) == i < RetryBudget

\* the break condition of the loop
FarEnough(init, target) == l2_distance(init, target) >= MinSeparation

\* TooCluttered with <= 0.5 m in place of < 1.0 m
TooCluttered_HalfMetre(init, target) == l2_distance(init, target) < MinSeparation - 1

\* the check after the loop that raises
TooCluttered(init, target) == l2_distance(init, target) < MinSeparation

----------------------------------------------------------------------------
(* Reward and termination of step *)

\* Accumulate with collision_links assigned, not extended, in each sub-step
Accumulate_LastOnly(reports) ==
    IF reports = <<>> THEN <<>> ELSE reports[Len(reports)]

RECURSIVE Accumulate(_)
\* collision_links += [...] once per sub-step
Accumulate(reports) ==
    IF reports = <<>> THEN <<>>
    ELSE Head(reports) \o Accumulate(Tail(reports))

\* the position the reward is computed from; None: the name is never bound
RobotPosition(task, pos) ==
    IF task = "pointgoal" THEN pos
    ELSE IF task = "reaching" THEN get_end_effector_position(pos)
    ELSE None

\* NewPotential without the normalisation by the initial distance
NewPotential_Unnormalised(target, robot_position, init) ==
    FDiv(l2_distance(target, robot_position), 1)

NewPotential(target, robot_position, init) ==
    FDiv(l2_distance(target, robot_position), l2_distance(target, init))

\* Progress with the operands of the subtraction swapped
Progress_Swapped(old_potential, new_potential) ==
    FMulInt(FSub(new_potential, old_potential), ProgressScale)

Progress(old_potential, new_potential) ==
    FMulInt(FSub(old_potential, new_potential), ProgressScale)

\* Reward with a non-zero electricity cost
Reward_WithCost(progress) == FAdd(FAdd(progress, FNeg(One)), Zero)

Reward(progress) == FAdd(FAdd(progress, Zero), Zero)

\* ReachedMaxStep with == in place of >=
ReachedMaxStep_Exact(step, max_step) == max_step # Infinity /\ step = max_step

\* ReachedMaxStep with > in place of >=
ReachedMaxStep_Strict(step, max_step) == max_step # Infinity /\ step > max_step

\* self.current_step >= self.max_step
ReachedMaxStep(step, max_step) == max_step # Infinity /\ step >= max_step

GoalReached(target, robot_position, dist_tol) ==
    l2_distance(target, robot_position) < dist_tol

\* Termination with the max-step check deciding done also at the goal
Termination_DoneFromCounter(step, cfg, target, robot_position, reward) ==
    [reward |-> IF GoalReached(target, robot_position, cfg.dist_tol)
                THEN cfg.terminal_reward ELSE reward,
     done |-> ReachedMaxStep(step, cfg.max_step)]

\* the termination check: reward and done as returned
Termination(step, cfg, target, robot_position, reward) ==
    IF GoalReached(target, robot_position, cfg.dist_tol)
    THEN [reward |-> cfg.terminal_reward, done |-> TRUE]
    ELSE [reward |-> reward, done |-> ReachedMaxStep(step, cfg.max_step)]

\* ResetCounters without the assignment to self.current_step
ResetCounters_KeepStep == [current_step |-> current_step, potential |-> One]

\* ResetCounters without the assignment to self.potential
ResetCounters_KeepPotential == [current_step |-> 0, potential |-> potential]

\* what reset assigns to the counters
ResetCounters == [current_step |-> 0, potential |-> One]

----------------------------------------------------------------------------
(* The order of the calls made by step and reset *)

\* SubSteps with the contact queries made after the loop
SubSteps_QueriesAfterLoop(n) ==
    [i \in 1..(2 * n) |-> IF i <= n THEN "simulator_step" ELSE "getContactPoints"]

RECURSIVE SubSteps(_)
\* the body of the sub-step loop, n times
SubSteps(n) ==
    IF n <= 0 THEN <<>>
    ELSE <<"simulator_step", "getContactPoints">> \o SubSteps(n - 1)

\* what step does, in order, up to the point where it raises or returns
StepCalls(n, error) ==
    <<"apply_action">> \o SubSteps(n)
    \o (IF error \in {"AttributeError", "KeyError"} THEN <<"observation">>
        ELSE IF error = "NameError" THEN <<"observation", "reward">>
        ELSE <<"observation", "reward", "termination">>)

\* ObservedPosition with the observation assembled before set_position
ObservedPosition_BeforePlacing(init, old) == old

\* the position get_additional_states reads in reset: set_position came first
ObservedPosition(init, old) == init

----------------------------------------------------------------------------
(* Outcomes of a call *)

Raised(op, err) ==
    [op |-> op, error |-> err, keys |-> <<>>, sensor |-> None, bump |-> FALSE,
     robot_position |-> None, reward |-> None, done |-> FALSE, calls |-> <<>>]

Returned(r) == r.error = "none" /\ r.op \in {"reset", "step"}

----------------------------------------------------------------------------
(* The state after construction *)

Init ==
    /\ config \in Configs
    /\ init_error = InitError(config)
    /\ simulator_loop = SimulatorLoop(config)
    /\ observation_space = ObservationSpace(config.output)
    /\ potential = One
    /\ current_step = 0
    /\ initial_pos = None
    /\ target_pos = None
    /\ robot_pos = CanonicalPos
    /\ pc = "idle"
    /\ draws = 0
    /\ contact_points = <<>>
    /\ ret = Raised("init", "none")
    /\ episode = [started |-> FALSE, steps |-> 0, after_steps |-> FALSE,
                  stayed |-> FALSE, no_goal |-> FALSE, reward_sum |-> Zero]

----------------------------------------------------------------------------
(* step(action) *)

Step ==
    /\ pc = "idle"
    /\ init_error = "none"
    /\ current_step < MaxCalls
    /\ \E pos \in RobotPositions, reports \in [1..simulator_loop -> ContactReports] :
        LET collision_links == Unique(Accumulate(reports))
            obs == AssembleState(config.output)
            robot_position == RobotPosition(config.task, pos)
            new_potential == NewPotential(target_pos, robot_position, initial_pos)
            reward == Reward(Progress(potential, new_potential))
            term == Termination(current_step + 1, config, target_pos,
                                robot_position, reward)
            error == IF target_pos = None THEN "AttributeError"
                     ELSE IF obs.error # "none" THEN obs.error
                     ELSE IF robot_position = None THEN "NameError"
                     ELSE "none"
        IN  /\ robot_pos' = pos
            /\ contact_points' = reports
            /\ draws' = 0
            /\ IF error # "none"
               THEN /\ ret' = [Raised("step", error) EXCEPT
                                  !.calls = StepCalls(simulator_loop, error)]
                    /\ UNCHANGED <<potential, current_step, episode>>
               ELSE /\ potential' = new_potential
                    /\ current_step' = current_step + 1
                    /\ ret' = [op |-> "step", error |-> "none", keys |-> obs.keys,
                               sensor |-> get_additional_states(target_pos, pos),
                               bump |-> Bump(collision_links),
                               robot_position |-> robot_position,
                               reward |-> term.reward, done |-> term.done,
                               calls |-> StepCalls(simulator_loop, error)]
                    /\ LET no_goal == /\ episode.no_goal
                                      /\ ~GoalReached(target_pos, robot_position,
                                                      config.dist_tol)
                       IN  episode' =
                             [episode EXCEPT
                                !.steps = @ + 1,
                                !.stayed = @ /\ robot_position = initial_pos,
                                !.no_goal = no_goal,
                                !.reward_sum = IF no_goal THEN FAdd(@, term.reward)
                                               ELSE Zero]
    /\ UNCHANGED <<config, init_error, simulator_loop, observation_space,
                   initial_pos, target_pos, pc>>

----------------------------------------------------------------------------
(* reset() *)

\* robot_specific_reset and the draw of the initial position
ResetBegin ==
    /\ pc = "idle"
    /\ init_error = "none"
    /\ robot_pos' = CanonicalPos
    /\ initial_pos' \in DrawInitial(config)
    /\ draws' = 0
    /\ contact_points' = <<>>
    /\ ret' = [Raised("reset", "pending") EXCEPT
                 !.calls = <<"robot_specific_reset", "sample_initial">>]
    /\ episode' = [episode EXCEPT !.stayed = FALSE, !.no_goal = FALSE,
                                  !.reward_sum = Zero]
    /\ pc' = "goal_loop"
    /\ UNCHANGED <<config, init_error, simulator_loop, observation_space,
                   potential, current_step, target_pos>>

\* one iteration of the goal loop; consecutive goal draws are logged once
ResetDraw ==
    /\ pc = "goal_loop"
    /\ LoopContinues(draws)
    /\ target_pos' \in DrawTarget(config)
    /\ draws' = draws + 1
    /\ pc' = IF FarEnough(initial_pos, target_pos') THEN "goal_check" ELSE "goal_loop"
    /\ ret' = IF draws = 0 THEN [ret EXCEPT !.calls = Append(@, "sample_goal")]
              ELSE ret
    /\ UNCHANGED <<config, init_error, simulator_loop, observation_space,
                   potential, current_step, initial_pos, robot_pos,
                   contact_points, episode>>

\* from the check after the loop to the return
ResetEnd ==
    /\ pc = "goal_check" \/ (pc = "goal_loop" /\ ~LoopContinues(draws))
    /\ pc' = "idle"
    /\ IF TooCluttered(initial_pos, target_pos)
       THEN /\ ret' = [Raised("reset", "Exception") EXCEPT !.calls = ret.calls]
            /\ UNCHANGED <<potential, current_step, robot_pos, contact_points,
                           episode>>
       ELSE LET obs == AssembleState(config.output)
            IN  /\ robot_pos' = initial_pos
                /\ current_step' = ResetCounters.current_step
                /\ potential' = ResetCounters.potential
                /\ IF obs.error # "none"
                   THEN /\ ret' = [Raised("reset", obs.error) EXCEPT
                                      !.calls = ret.calls
                                                \o <<"set_position", "observation">>]
                        /\ UNCHANGED <<contact_points, episode>>
                   ELSE \E report \in (IF InSeq("bump", config.output)
                                       THEN ContactReports ELSE {None}) :
                        /\ contact_points' = IF InSeq("bump", config.output)
                                             THEN <<report>> ELSE <<>>
                        /\ ret' = [op |-> "reset", error |-> "none",
                                   keys |-> obs.keys,
                                   sensor |-> get_additional_states(target_pos,
                                                ObservedPosition(initial_pos, robot_pos)),
                                   bump |-> Bump(Unique(report)),
                                   robot_position |-> None,
                                   reward |-> None, done |-> FALSE,
                                   calls |-> ret.calls
                                             \o <<"set_position", "observation">>]
                        /\ episode' = [started |-> TRUE, steps |-> 0,
                                       after_steps |-> episode.steps > 0,
                                       stayed |-> TRUE, no_goal |-> TRUE,
                                       reward_sum |-> Zero]
    /\ UNCHANGED <<config, init_error, simulator_loop, observation_space,
                   initial_pos, target_pos, draws>>

----------------------------------------------------------------------------

Next == Step \/ ResetBegin \/ ResetDraw \/ ResetEnd

Spec == Init /\ [][Next]_vars

----------------------------------------------------------------------------
(* Properties *)

StepReturned == ret.op = "step" /\ ret.error = "none"

ResetReturned == ret.op = "reset" /\ ret.error = "none"

AtGoal == l2_distance(target_pos, ret.robot_position) < config.dist_tol

\* C1: whenever step returns with the robot position closer to the goal than
\* dist_tol, the returned reward is terminal_reward and done is true.
C1_GoalPriority ==
    (StepReturned /\ AtGoal) => (ret.reward = config.terminal_reward /\ ret.done)

\* a step that reached the goal before max_step, with a non-zero terminal reward
C1_Witness ==
    /\ StepReturned /\ AtGoal
    /\ config.max_step # Infinity /\ current_step < config.max_step
    /\ ret.reward = <<7, 1>> /\ ret.done

\* C2: in an episode started by a reset that returned, with max_step = K, a
\* step that does not reach the goal returns done = FALSE when it is one of
\* the steps 1..K-1 of the episode and done = TRUE when it is step K.
C2_MaxStepTermination ==
    (StepReturned /\ episode.started /\ ~AtGoal
        /\ config.max_step # Infinity /\ episode.steps <= config.max_step)
    => (ret.done <=> episode.steps = config.max_step)

\* step K of an episode, away from the goal, returned done
C2_Witness ==
    /\ StepReturned /\ episode.started /\ ~AtGoal
    /\ episode.steps = config.max_step /\ ret.done

\* C3: after every reset that returned an observation the stored initial and
\* goal positions are at least 1.0 m apart.
C3_Separation ==
    ResetReturned => l2_distance(initial_pos, target_pos) >= MinSeparation

\* a reset that returned after redrawing the goal
C3_Witness ==
    /\ ResetReturned /\ draws > 1
    /\ l2_distance(initial_pos, target_pos) >= MinSeparation

\* C4: reset draws the goal at most 100 times and does not redraw the initial
\* position while it does; a reset that ends with the last of 100 draws closer
\* than 1.0 m to the initial position raises and returns no observation.
C4_RetryBudget ==
    /\ [](draws <= RetryBudget)
    /\ [][pc = "goal_loop" => initial_pos' = initial_pos]_vars
    /\ []((pc = "idle" /\ ret.op = "reset" /\ draws = RetryBudget
              /\ l2_distance(initial_pos, target_pos) < MinSeparation)
          => (ret.error = "Exception" /\ ret.keys = <<>>))

\* a reset that raised after 100 draws
C4_Witness ==
    /\ pc = "idle" /\ ret.op = "reset" /\ ret.error = "Exception"
    /\ draws = RetryBudget
    /\ l2_distance(initial_pos, target_pos) < MinSeparation

\* C5: after every reset that returned, the potential is 1 and the step
\* counter is 0.
C5_ResetCounters ==
    ResetReturned => (potential = One /\ current_step = 0)

\* a reset that returned after steps of an earlier episode
C5_Witness ==
    /\ ResetReturned /\ episode.after_steps
    /\ potential = One /\ current_step = 0

\* the channels step and reset test for, in the order of the tests
CodeOrder == <<"sensor", "rgb", "depth", "normal", "seg", "rgb_filled", "bump">>

ChannelIndex(c) == CHOOSE i \in 1..Len(CodeOrder) : CodeOrder[i] = c

SupportedChannels == {CodeOrder[i] : i \in 1..Len(CodeOrder)}

C7_Bump ==
    (StepReturned /\ InSeq("bump", config.output))
    => /\ InSeq("bump", ret.keys)
       /\ ret.bump <=> \E i \in 1..Len(contact_points) :
                          \E j \in 1..Len(contact_points[i]) :
                             contact_points[i][j] = -1

\* link -1 reported in the first sub-step only, another link twice in the last
C7_Witness ==
    /\ StepReturned /\ InSeq("bump", ret.keys) /\ ret.bump
    /\ contact_points = << <<-1>>, <<0, 0>> >>

\* C8: every step that returns stores distance(goal, robot) / distance(goal,
\* initial) as the potential, and away from the goal its reward is (potential
\* before the step - potential after it) * 1000.
C8_PotentialReward ==
    [][(pc = "idle" /\ pc' = "idle" /\ ret'.op = "step" /\ ret'.error = "none")
       => LET d_robot == l2_distance(target_pos, ret'.robot_position)
              d_init == l2_distance(target_pos, initial_pos)
          IN  /\ IF d_init > 0
                 THEN /\ potential'[2] > 0
                      /\ potential'[1] * d_init = d_robot * potential'[2]
                 ELSE potential'[2] = 0
              /\ d_robot >= config.dist_tol
                 => IF IsFinite(potential) /\ IsFinite(potential')
                    THEN /\ IsFinite(ret'.reward)
                         /\ ret'.reward[1] * potential[2] * potential'[2]
                              = ProgressScale * ret'.reward[2]
                                * (potential[1] * potential'[2]
                                   - potential'[1] * potential[2])
                    ELSE ~IsFinite(ret'.reward)]_vars

\* a step away from the goal that made progress
C8_Witness ==
    /\ StepReturned /\ ~AtGoal
    /\ IsFinite(potential) /\ potential # One
    /\ IsFinite(ret.reward) /\ ret.reward[1] > 0

\* C9 as claimed: a step executed while the stored initial and goal positions
\* coincide raises and returns no transition.
C9_FailFast ==
    (pc = "idle" /\ ret.op = "step" /\ target_pos # None
        /\ l2_distance(target_pos, initial_pos) = 0)
    => ret.error # "none"

\* C10 as claimed: with a channel name outside the supported set in the
\* configured output, construction fails and no observation is ever returned.
C10_UnknownChannelRejected ==
    (\E i \in 1..Len(config.output) : config.output[i] \notin SupportedChannels)
    => (init_error # "none" /\ ~Returned(ret))

\* C11 as claimed: a configuration whose action_timestep is not an integer
\* multiple of physics_timestep makes construction fail, so a constructed
\* environment has simulator_loop * physics_timestep = action_timestep.
C11_IntegralRatio ==
    /\ config.action_timestep % config.physics_timestep # 0 => init_error # "none"
    /\ init_error = "none"
       => simulator_loop * config.physics_timestep = config.action_timestep

\* C12 as claimed: a step that gets past observation assembly returns a
\* transition for every task, computed from the end-effector position when
\* the task is reaching and from the root position for every other task.
C12_PositionByTask ==
    (pc = "idle" /\ ret.op = "step" /\ target_pos # None
        /\ AssembleState(config.output).error = "none")
    => /\ ret.error = "none"
       /\ ret.robot_position = IF config.task = "reaching"
                               THEN get_end_effector_position(robot_pos)
                               ELSE robot_pos

\* a transition that is a call of step which returned
StepTransition ==
    pc = "idle" /\ pc' = "idle" /\ ret'.op = "step" /\ ret'.error = "none"

\* C13: in a run of steps after a reset that returned, with the robot
\* position equal to the initial position at every step and the goal at
\* least dist_tol away, every step leaves the potential at 1 and returns
\* reward 0, and step number max_step returns done with that reward 0.
C13_NeverMoves ==
    (StepReturned /\ episode.stayed
        /\ l2_distance(target_pos, initial_pos) >= config.dist_tol)
    => /\ potential = One
       /\ ret.reward = Zero
       /\ episode.steps = config.max_step => ret.done

\* step max_step of an episode in which the robot never moved, with a
\* terminal reward other than 0
C13_Witness ==
    /\ StepReturned /\ episode.stayed
    /\ episode.steps = config.max_step /\ ret.done
    /\ ret.reward = Zero /\ config.terminal_reward # Zero

\* C14: every call of step applies the action once, first, then runs
\* simulator_loop sub-steps each followed by one contact query, and only then
\* computes observation, reward and termination; simulator_loop never changes.
C14_SubStepOrder ==
    /\ []((pc = "idle" /\ ret.op = "step") =>
            LET c == ret.calls
                n == simulator_loop
            IN  /\ Len(c) >= 2 * n + 1
                /\ c[1] = "apply_action"
                /\ \A i \in 1..n : /\ c[2 * i] = "simulator_step"
                                   /\ c[2 * i + 1] = "getContactPoints"
                /\ \A i \in (2 * n + 2)..Len(c) :
                      c[i] \in {"observation", "reward", "termination"}
                /\ Len(contact_points) = n
                /\ ret.error = "none"
                   => SubSeq(c, 2 * n + 2, Len(c))
                        = <<"observation", "reward", "termination">>)
    /\ [][simulator_loop' = simulator_loop]_vars

\* a step of a later episode with two sub-steps
C14_Witness ==
    /\ StepReturned /\ episode.after_steps
    /\ simulator_loop = 2 /\ Len(contact_points) = 2
    /\ Len(ret.calls) = 8

\* C15: the step counter is never negative; every call of step that returns
\* adds exactly 1 to it; any other change of it is a reset that returned
\* setting it to 0; so it equals the number of steps since that reset.
C15_StepCounter ==
    /\ [](current_step >= 0)
    /\ [](episode.started => current_step = episode.steps)
    /\ [][IF StepTransition
          THEN current_step' = current_step + 1
          ELSE current_step' # current_step
               => /\ pc' = "idle" /\ ret'.op = "reset" /\ ret'.error = "none"
                  /\ current_step' = 0]_vars

\* a step counted after done had been returned
C15_Witness ==
    /\ StepReturned /\ episode.started
    /\ config.max_step # Infinity /\ current_step > config.max_step
    /\ current_step = episode.steps

\* C16: a reset that returned called robot_specific_reset, sampled the poses,
\* placed the robot and then assembled the observation, in this order; its
\* sensor reading is the new goal relative to the new initial position, where
\* the robot is; it returns no reward.
C16_ResetOrder ==
    ResetReturned
    => /\ ret.calls = <<"robot_specific_reset", "sample_initial", "sample_goal",
                        "set_position", "observation">>
       /\ draws >= 1
       /\ robot_pos = initial_pos
       /\ ret.sensor = VecSub(target_pos, initial_pos)
       /\ ret.reward = None

\* a reset after an earlier episode, to an initial position other than the
\* canonical one
C16_Witness ==
    /\ ResetReturned /\ episode.after_steps
    /\ initial_pos # CanonicalPos
    /\ ret.sensor = VecSub(target_pos, initial_pos)

\* C17 as claimed: whenever step has computed the potential, the stored
\* initial and goal positions are at least 1.0 m apart.
C17_SeparationAtStep ==
    StepReturned => l2_distance(initial_pos, target_pos) >= MinSeparation

\* C18: after n consecutive steps following a reset that returned, none of
\* which reached the goal, the sum of the rewards is 1000 * (1 - potential).
C18_Telescoping ==
    (StepReturned /\ episode.no_goal)
    => /\ IsFinite(episode.reward_sum) /\ IsFinite(potential)
       /\ episode.reward_sum[1] * potential[2]
            = ProgressScale * (potential[2] - potential[1]) * episode.reward_sum[2]

\* a second or later step that moved away from the goal, rewards not summing to 0
C18_Witness ==
    /\ StepReturned /\ episode.no_goal /\ episode.steps >= 2
    /\ ret.reward[1] < 0
    /\ episode.reward_sum # Zero /\ episode.reward_sum # ret.reward

\* C19: a call of step made right after a step that returned done with the
\* counter at max_step or beyond returns, and returns done; and as long as no
\* reset has returned, a step numbered max_step or more returns done.
C19_DoneStays ==
    /\ [][(StepReturned /\ ret.done /\ config.max_step # Infinity
              /\ current_step >= config.max_step
              /\ pc = "idle" /\ pc' = "idle" /\ ret'.op = "step")
          => (ret'.error = "none" /\ ret'.done)]_vars
    /\ []((StepReturned /\ episode.started /\ config.max_step # Infinity
              /\ episode.steps >= config.max_step)
          => ret.done)

\* a step after max_step, away from the goal, that returned done
C19_Witness ==
    /\ StepReturned /\ ~AtGoal /\ ret.done
    /\ config.max_step # Infinity /\ current_step > config.max_step

\* C20 as claimed: the keys of every returned observation are the keys of the
\* observation space declared at construction.
C20_DeclaredKeys ==
    Returned(ret)
    => {ret.keys[i] : i \in 1..Len(ret.keys)}
         = {observation_space[i] : i \in 1..Len(observation_space)}

====
